---------------------------- MODULE Spec2Model ----------------------------
(***************************************************************************)
(* Model of WebTunnelSSH (WebTunnel/WebTunnelSSH/src/WebTunnelSSH.cpp):    *)
(* option handlers, WebTunnelSSH::main and promptLogin.  Strings that the  *)
(* program inspects character by character (the client executable, the    *)
(* arguments of the client) are sequences of one-character strings.        *)
(***************************************************************************)
EXTENDS Integers, Sequences, FiniteSets, TLC

VARIABLES
    pc,             \* position of the control thread
    helpRequested,  \* _helpRequested
    localPort,      \* _localPort
    remotePort,     \* _remotePort
    username,       \* _username
    password,       \* _password
    login,          \* _login
    sshClient,      \* _sshClient
    args,           \* the positional arguments handed to main()
    cfgExecutable,  \* configuration key ssh.executable: {} (absent) or {value}
    cfgProxyEnable, \* configuration key http.proxy.enable
    tlsEnabled,     \* the build defines WEBTUNNEL_ENABLE_TLS
    optClient,      \* history: {} or {the executable last chosen by -C / --scp}
    rc,             \* exit status of the run (meaningful when pc = "exit")
    outcome,        \* how the run ended
    helpShown,      \* displayHelp() was called
    tlsWrites,      \* calls of SSLManager::initializeClient
    proxyWrites,    \* calls of HTTPClientSession::setGlobalProxyConfig
    userPrompts,    \* username prompts written
    passPrompts,    \* password prompts written
    userReads,      \* lines read into _username
    passReads,      \* lines read into _password
    usernameAtMain, \* history: _username when main() was entered
    passwordAtMain, \* history: _password when main() was entered
    echoOn,         \* terminal echo flag
    tunnel,         \* "none", "open", "closed": the LocalPortForwarder object
    boundPort,      \* forwarder.localPort()
    sshArgs,        \* the argument vector built for the client
    spawnAttempts,  \* calls of Process::launch
    spawnedExe,     \* {} or {the executable handed to Process::launch}
    child,          \* "none", "running", "terminated"
    childCode,      \* the exit code of the terminated child
    programFound    \* at the launch, a program named by _sshClient exists

vars == <<pc, helpRequested, localPort, remotePort, username, password, login,
          sshClient, args, cfgExecutable, cfgProxyEnable, tlsEnabled, optClient,
          rc, outcome, helpShown, tlsWrites, proxyWrites, userPrompts,
          passPrompts, userReads, passReads, usernameAtMain, passwordAtMain,
          echoOn, tunnel, boundPort, sshArgs, spawnAttempts, spawnedExe, child,
          childCode, programFound>>

---------------------------------------------------------------------------
(* Exit statuses and defaults. *)

EXIT_OK == 0

EXIT_CONFIG == 78

DefaultLocalPort == 0

DefaultRemotePort == 22

\* The largest number of arguments that follow the remote URI.
MaxTrailing == 2

---------------------------------------------------------------------------
(* Strings the program builds or inspects. *)

S_ssh == <<"s","s","h">>
S_scp == <<"s","c","p">>
S_putty == <<"p","u","t","t","y">>
S_ScP == <<"S","c","P">>
S_sc == <<"s","c">>
S_PuTTYexe == <<"P","u","T","T","Y",".","e","x","e">>
S_binscp == <<"/","b","i","n","/","s","c","p">>
S_winputty == <<"C",":","\\","p","u","t","t","y",".","e","x","e">>
S_dashP == <<"-","P">>
S_dashp == <<"-","p">>
S_dashl == <<"-","l">>
S_localhost == <<"l","o","c","a","l","h","o","s","t">>
S_bob == <<"b","o","b">>
GoodURI == <<"h","t","t","p","s",":","/","/","d">>
BadURI == <<"h","t","t","p",":","/","/","[">>

---------------------------------------------------------------------------
(* Library functions the program calls. *)

\* The characters the model uses, in ASCII order.
Ascii == <<"-", ".", "/", "0", "1", "2", "3", "4", "5", "6", "7", "8", "9", ":",
           "A", "B", "C", "D", "E", "F", "G", "H", "I", "J", "K", "L", "M",
           "N", "O", "P", "Q", "R", "S", "T", "U", "V", "W", "X", "Y", "Z",
           "[", "\\",
           "a", "b", "c", "d", "e", "f", "g", "h", "i", "j", "k", "l", "m",
           "n", "o", "p", "q", "r", "s", "t", "u", "v", "w", "x", "y", "z">>

Code(c) == CHOOSE i \in 1..Len(Ascii) : Ascii[i] = c

\* Ascii::toLower
ToLower(c) == IF Code(c) \in Code("A")..Code("Z")
              THEN Ascii[Code(c) + (Code("a") - Code("A"))]
              ELSE c

\* Poco::icompare(first, last, ptr): str is the range [first, last).
RECURSIVE icompareRange(_, _)
icompareRange(str, ptr) ==
    IF str # <<>> /\ ptr # <<>>
    THEN LET c1 == Code(ToLower(Head(str)))
             c2 == Code(ToLower(Head(ptr)))
         IN  IF c1 < c2 THEN -1
             ELSE IF c1 > c2 THEN 1
             ELSE icompareRange(Tail(str), Tail(ptr))
    ELSE IF str = <<>>
         THEN (IF ptr = <<>> THEN 0 ELSE -1)
         ELSE 1

\* Poco::icompare(str, pos, n, ptr)
icompare(str, pos, n, ptr) ==
    LET sz == Len(str)
        p  == IF pos > sz THEN sz ELSE pos
        m  == IF p + n > sz THEN sz - p ELSE n
    IN  icompareRange(SubSeq(str, p + 1, p + m), ptr)

Digits == <<"0", "1", "2", "3", "4", "5", "6", "7", "8", "9">>

\* Poco::NumberFormatter::format(unsigned): the decimal digits of n.
RECURSIVE format(_)
format(n) == IF n < 10 THEN <<Digits[n + 1]>>
             ELSE format(n \div 10) \o <<Digits[(n % 10) + 1]>>

\* config().getString(key, deflt) for a key that is absent ({}) or present ({v}).
getString(cfg, deflt) == IF cfg = {} THEN deflt ELSE CHOOSE v \in cfg : TRUE

---------------------------------------------------------------------------
(* The argument vector of the client, WebTunnelSSH::main. *)

\* Variant: only putty selects -P.
IsPuttyOrScp_PuttyOnly(client) == icompare(client, 0, 5, S_putty) = 0

\* The test that selects the port flag.
IsPuttyOrScp(client) ==
    icompare(client, 0, 5, S_putty) = 0 \/ icompare(client, 0, 3, S_scp) = 0

\* The test that guards "-l <login>" and the trailing "localhost".
IsScp(client) == icompare(client, 0, 3, S_scp) = 0

\* Variant: the port the user asked for is used, not the bound one.
PortArgs_Requested(client, port) ==
    <<IF IsPuttyOrScp(client) THEN S_dashP ELSE S_dashp, format(localPort)>>

PortArgs(client, port) ==
    <<IF IsPuttyOrScp(client) THEN S_dashP ELSE S_dashp, format(port)>>

\* Variant: the login name is passed to scp as well.
LoginArgs_NoScpTest(client, loginName) ==
    IF loginName # <<>> THEN <<S_dashl, loginName>> ELSE <<>>

LoginArgs(client, loginName) ==
    IF loginName # <<>> /\ ~IsScp(client) THEN <<S_dashl, loginName>> ELSE <<>>

\* Variant: the copy starts at args.begin().
TrailingArgs_All(a) == a

\* [++args.begin(), args.end())
TrailingArgs(a) == Tail(a)

HostArgs(client) == IF ~IsScp(client) THEN <<S_localhost>> ELSE <<>>

\* Variant: the login name is pushed after the trailing arguments.
BuildArgs_LoginLast(client, port, loginName, a) ==
    PortArgs(client, port) \o TrailingArgs(a)
        \o LoginArgs(client, loginName) \o HostArgs(client)

BuildArgs(client, port, loginName, a) ==
    PortArgs(client, port) \o LoginArgs(client, loginName)
        \o TrailingArgs(a) \o HostArgs(client)

---------------------------------------------------------------------------
(* Inputs of a run. *)

\* _sshClient after construction: "ssh" on Unix; on Windows the path that
\* findExecutable returns for ssh.exe or putty.exe, else empty.
InitClients == {S_ssh, S_winputty, <<>>}

\* Values given with -C / --ssh-client.
ClientOptionValues == {S_ScP, S_binscp, S_sc}

\* Values of the configuration key ssh.executable.
ConfigExecutables == {S_PuTTYexe, <<>>}

UsernameValues == {"admin"}

PasswordValues == {"secret"}

LoginValues == {S_bob}

\* A line typed at a prompt; "" is a blank line or end of input.
InputLines == {"", "typed"}

LocalPortValues == {22}

RemotePortValues == {2222}

\* Ports the operating system may choose for an ephemeral bind.
EphemeralPorts == {1, 65535}

TrailingAlphabet == {S_dashl, S_localhost}

RECURSIVE SeqsUpTo(_, _)
SeqsUpTo(S, n) ==
    IF n = 0 THEN {<<>>}
    ELSE LET shorter == SeqsUpTo(S, n - 1)
         IN  shorter \cup {Append(t, x) : t \in shorter, x \in S}

TrailingLists == SeqsUpTo(TrailingAlphabet, MaxTrailing)

\* The positional arguments: none, or a remote URI and the trailing arguments.
ArgLists == {<<>>} \cup {<<u>> \o t : u \in {GoodURI, BadURI}, t \in TrailingLists}

ChildCodes == {0, 1, 78}

---------------------------------------------------------------------------
(* State after construction and initialize(). *)

Init ==
    /\ pc = "options"
    /\ helpRequested = FALSE
    /\ localPort = DefaultLocalPort
    /\ remotePort = DefaultRemotePort
    /\ username = ""
    /\ password = ""
    /\ login = <<>>
    /\ sshClient \in InitClients
    /\ args \in ArgLists
    /\ cfgExecutable \in {{}} \cup {{v} : v \in ConfigExecutables}
    /\ cfgProxyEnable \in BOOLEAN
    /\ tlsEnabled \in BOOLEAN
    /\ optClient = {}
    /\ rc = EXIT_OK
    /\ outcome = "running"
    /\ helpShown = FALSE
    /\ tlsWrites = 0
    /\ proxyWrites = 0
    /\ userPrompts = 0
    /\ passPrompts = 0
    /\ userReads = 0
    /\ passReads = 0
    /\ usernameAtMain = ""
    /\ passwordAtMain = ""
    /\ echoOn = TRUE
    /\ tunnel = "none"
    /\ boundPort = 0
    /\ sshArgs = <<>>
    /\ spawnAttempts = 0
    /\ spawnedExe = {}
    /\ child = "none"
    /\ childCode = 0
    /\ programFound = FALSE

envVars == <<args, cfgExecutable, cfgProxyEnable, tlsEnabled>>

mainVars == <<rc, outcome, helpShown, tlsWrites, proxyWrites, userPrompts,
              passPrompts, userReads, passReads, usernameAtMain, passwordAtMain,
              echoOn, tunnel, boundPort, sshArgs, spawnAttempts, spawnedExe,
              child, childCode, programFound>>

---------------------------------------------------------------------------
(* Option callbacks, run while the command line is processed. *)

handleHelp ==
    /\ pc = "options"
    /\ helpRequested' = TRUE
    /\ UNCHANGED <<pc, localPort, remotePort, username, password, login,
                   sshClient, optClient, envVars, mainVars>>

handleClient ==
    /\ pc = "options"
    /\ \E value \in ClientOptionValues :
          /\ sshClient' = value
          /\ optClient' = {value}
    /\ UNCHANGED <<pc, helpRequested, localPort, remotePort, username,
                   password, login, envVars, mainVars>>

handleSCP ==
    /\ pc = "options"
    /\ sshClient' = S_scp
    /\ optClient' = {S_scp}
    /\ UNCHANGED <<pc, helpRequested, localPort, remotePort, username,
                   password, login, envVars, mainVars>>

handleLocalPort ==
    /\ pc = "options"
    /\ \E value \in LocalPortValues : localPort' = value % 65536
    /\ UNCHANGED <<pc, helpRequested, remotePort, username, password, login,
                   sshClient, optClient, envVars, mainVars>>

handleRemotePort ==
    /\ pc = "options"
    /\ \E value \in RemotePortValues : remotePort' = value % 65536
    /\ UNCHANGED <<pc, helpRequested, localPort, username, password, login,
                   sshClient, optClient, envVars, mainVars>>

handleUsername ==
    /\ pc = "options"
    /\ \E value \in UsernameValues : username' = value
    /\ UNCHANGED <<pc, helpRequested, localPort, remotePort, password, login,
                   sshClient, optClient, envVars, mainVars>>

handleLogin ==
    /\ pc = "options"
    /\ \E value \in LoginValues : login' = value
    /\ UNCHANGED <<pc, helpRequested, localPort, remotePort, username,
                   password, sshClient, optClient, envVars, mainVars>>

handlePassword ==
    /\ pc = "options"
    /\ \E value \in PasswordValues : password' = value
    /\ UNCHANGED <<pc, helpRequested, localPort, remotePort, username, login,
                   sshClient, optClient, envVars, mainVars>>

---------------------------------------------------------------------------
(* What the callees of main() do. *)

\* The status Application::run() returns when main() leaves by an exception.
UncaughtExceptionStatus == EXIT_CONFIG

\* Poco::URI(args[0]) throws a SyntaxException.
URISyntaxError(a) == a[1] = BadURI

\* LocalPortForwarder::localPort() after a bind to the requested port.
ForwarderPorts(requested) ==
    IF requested # 0 THEN {requested} ELSE EphemeralPorts

\* Process::launch throws when the program cannot be started.
LaunchThrows(found) == ~found

---------------------------------------------------------------------------
(* WebTunnelSSH::main and promptLogin. *)

optVars == <<helpRequested, localPort, remotePort, login, optClient>>

\* Variant: only a missing remote URI shows the usage.
ShowHelp_ArgsOnly(help, a) == a = <<>>

\* Variant: only the help option shows the usage.
ShowHelp_HelpOnly(help, a) == help

\* if (_helpRequested || args.empty())
ShowHelp(help, a) == help \/ a = <<>>

mainHelp ==
    /\ pc = "options"
    /\ ShowHelp(helpRequested, args)
    /\ helpShown' = TRUE
    /\ rc' = EXIT_OK
    /\ outcome' = "help"
    /\ pc' = "exit"
    /\ UNCHANGED <<optVars, envVars, username, password, sshClient, tlsWrites,
                   proxyWrites, userPrompts, passPrompts, userReads, passReads,
                   usernameAtMain, passwordAtMain, echoOn, tunnel, boundPort,
                   sshArgs, spawnAttempts, spawnedExe, child, childCode,
                   programFound>>

\* Variant: the proxy configuration is registered whether or not it is enabled.
ProxyWanted_Always(enable) == TRUE

\* if (config().getBool("http.proxy.enable", false))
ProxyWanted(enable) == enable

mainConfigure ==
    /\ pc = "options"
    /\ ~ShowHelp(helpRequested, args)
    /\ tlsWrites' = IF tlsEnabled THEN tlsWrites + 1 ELSE tlsWrites
    /\ proxyWrites' = IF ProxyWanted(cfgProxyEnable)
                      THEN proxyWrites + 1 ELSE proxyWrites
    /\ usernameAtMain' = username
    /\ passwordAtMain' = password
    /\ pc' = "resolve"
    /\ UNCHANGED <<optVars, envVars, username, password, sshClient, rc, outcome,
                   helpShown, userPrompts, passPrompts, userReads, passReads,
                   echoOn, tunnel, boundPort, sshArgs, spawnAttempts,
                   spawnedExe, child, childCode, programFound>>

\* _sshClient = config().getString("ssh.executable", _sshClient)
ResolvedClient(cfg, current) == getString(cfg, current)

\* Variant: the emptiness test is lost.
ClientMissing_Never(client) == FALSE

\* if (_sshClient.empty())
ClientMissing(client) == client = <<>>

\* Variant: the error branch returns rc, still EXIT_OK.
NoClientStatus_Rc == EXIT_OK

\* return Poco::Util::Application::EXIT_CONFIG
NoClientStatus == EXIT_CONFIG

\* Variant: the prompt is issued whether or not the field was supplied.
NeedsPrompt_Always(field) == TRUE

\* if (_username.empty()), if (_password.empty())
NeedsPrompt(field) == field = ""

\* Variant: the exit code of the child is reduced to success or failure.
ExitStatusOfWait_Flag(code) == IF code = 0 THEN 0 ELSE 1

\* rc = ph.wait()
ExitStatusOfWait(code) == code

mainResolveClient ==
    /\ pc = "resolve"
    /\ sshClient' = ResolvedClient(cfgExecutable, sshClient)
    /\ IF ClientMissing(sshClient')
       THEN /\ rc' = NoClientStatus
            /\ outcome' = "noClient"
            /\ pc' = "exit"
       ELSE /\ pc' = "promptUser"
            /\ UNCHANGED <<rc, outcome>>
    /\ UNCHANGED <<optVars, envVars, username, password, helpShown, tlsWrites,
                   proxyWrites, userPrompts, passPrompts, userReads, passReads,
                   usernameAtMain, passwordAtMain, echoOn, tunnel, boundPort,
                   sshArgs, spawnAttempts, spawnedExe, child, childCode,
                   programFound>>

promptUsername ==
    /\ pc = "promptUser"
    /\ IF NeedsPrompt(username)
       THEN /\ userPrompts' = userPrompts + 1
            /\ \E line \in InputLines : username' = line
            /\ userReads' = userReads + 1
       ELSE UNCHANGED <<userPrompts, username, userReads>>
    /\ pc' = "promptPass"
    /\ UNCHANGED <<optVars, envVars, password, sshClient, rc, outcome,
                   helpShown, tlsWrites, proxyWrites, passPrompts, passReads,
                   usernameAtMain, passwordAtMain, echoOn, tunnel, boundPort,
                   sshArgs, spawnAttempts, spawnedExe, child, childCode,
                   programFound>>

promptPassword ==
    /\ pc = "promptPass"
    /\ IF NeedsPrompt(password)
       THEN /\ passPrompts' = passPrompts + 1
            /\ echoOn' = FALSE
            /\ pc' = "readPass"
       ELSE /\ pc' = "open"
            /\ UNCHANGED <<passPrompts, echoOn>>
    /\ UNCHANGED <<optVars, envVars, username, password, sshClient, rc, outcome,
                   helpShown, tlsWrites, proxyWrites, userPrompts, userReads,
                   passReads, usernameAtMain, passwordAtMain, tunnel, boundPort,
                   sshArgs, spawnAttempts, spawnedExe, child, childCode,
                   programFound>>

\* Variant: echo is restored only when a line was read.
EchoAfterRead_OnlyOnInput(line) == line # ""

\* echo(true) follows std::getline unconditionally.
EchoAfterRead(line) == TRUE

readPassword ==
    /\ pc = "readPass"
    /\ \E line \in InputLines :
          /\ password' = line
          /\ echoOn' = EchoAfterRead(line)
    /\ passReads' = passReads + 1
    /\ pc' = "open"
    /\ UNCHANGED <<optVars, envVars, username, sshClient, rc, outcome,
                   helpShown, tlsWrites, proxyWrites, userPrompts, passPrompts,
                   userReads, usernameAtMain, passwordAtMain, tunnel, boundPort,
                   sshArgs, spawnAttempts, spawnedExe, child, childCode,
                   programFound>>

openTunnel ==
    /\ pc = "open"
    /\ ~URISyntaxError(args)
    /\ tunnel' = "open"
    /\ boundPort' \in ForwarderPorts(localPort)
    /\ pc' = "build"
    /\ UNCHANGED <<optVars, envVars, username, password, sshClient, rc, outcome,
                   helpShown, tlsWrites, proxyWrites, userPrompts, passPrompts,
                   userReads, passReads, usernameAtMain, passwordAtMain, echoOn,
                   sshArgs, spawnAttempts, spawnedExe, child, childCode,
                   programFound>>

\* Variant: the exception is swallowed and main() carries on.
openTunnelFails_Continue ==
    /\ pc = "open"
    /\ outcome' = "tunnelError"
    /\ pc' = "build"
    /\ UNCHANGED <<optVars, envVars, username, password, sshClient, rc,
                   helpShown, tlsWrites, proxyWrites, userPrompts, passPrompts,
                   userReads, passReads, usernameAtMain, passwordAtMain, echoOn,
                   tunnel, boundPort, sshArgs, spawnAttempts, spawnedExe, child,
                   childCode, programFound>>

\* Poco::URI or the LocalPortForwarder constructor throws: main() is left.
openTunnelFails ==
    /\ pc = "open"
    /\ rc' = UncaughtExceptionStatus
    /\ outcome' = "tunnelError"
    /\ pc' = "exit"
    /\ UNCHANGED <<optVars, envVars, username, password, sshClient, helpShown,
                   tlsWrites, proxyWrites, userPrompts, passPrompts, userReads,
                   passReads, usernameAtMain, passwordAtMain, echoOn, tunnel,
                   boundPort, sshArgs, spawnAttempts, spawnedExe, child,
                   childCode, programFound>>

\* The argument vector is built; whether the program named by _sshClient can
\* be started is a fact of the file system at the launch that follows.
buildInvocation ==
    /\ pc = "build"
    /\ sshArgs' = BuildArgs(sshClient, boundPort, login, args)
    /\ programFound' \in BOOLEAN
    /\ pc' = "launch"
    /\ UNCHANGED <<optVars, envVars, username, password, sshClient, rc, outcome,
                   helpShown, tlsWrites, proxyWrites, userPrompts, passPrompts,
                   userReads, passReads, usernameAtMain, passwordAtMain, echoOn,
                   tunnel, boundPort, spawnAttempts, spawnedExe, child,
                   childCode>>

\* Variant: main() returns right after the launch, without ph.wait().
launch_NoWait ==
    /\ pc = "launch"
    /\ ~LaunchThrows(programFound)
    /\ spawnAttempts' = spawnAttempts + 1
    /\ spawnedExe' = {sshClient}
    /\ child' = "running"
    /\ outcome' = "passthrough"
    /\ tunnel' = "closed"
    /\ pc' = "exit"
    /\ UNCHANGED <<optVars, envVars, username, password, sshClient, rc,
                   helpShown, tlsWrites, proxyWrites, userPrompts, passPrompts,
                   userReads, passReads, usernameAtMain, passwordAtMain, echoOn,
                   boundPort, sshArgs, childCode, programFound>>

launch ==
    /\ pc = "launch"
    /\ ~LaunchThrows(programFound)
    /\ spawnAttempts' = spawnAttempts + 1
    /\ spawnedExe' = {sshClient}
    /\ child' = "running"
    /\ pc' = "wait"
    /\ UNCHANGED <<optVars, envVars, username, password, sshClient, rc, outcome,
                   helpShown, tlsWrites, proxyWrites, userPrompts, passPrompts,
                   userReads, passReads, usernameAtMain, passwordAtMain, echoOn,
                   tunnel, boundPort, sshArgs, childCode, programFound>>

\* Variant: the forwarder outlives the failed launch.
launchFails_Leak ==
    /\ pc = "launch"
    /\ LaunchThrows(programFound)
    /\ spawnAttempts' = spawnAttempts + 1
    /\ rc' = UncaughtExceptionStatus
    /\ outcome' = "spawnError"
    /\ pc' = "exit"
    /\ UNCHANGED <<optVars, envVars, username, password, sshClient, helpShown,
                   tlsWrites, proxyWrites, userPrompts, passPrompts, userReads,
                   passReads, usernameAtMain, passwordAtMain, echoOn, tunnel,
                   boundPort, sshArgs, spawnedExe, child, childCode,
                   programFound>>

\* Process::launch throws: main() is left and the forwarder is destroyed.
launchFails ==
    /\ pc = "launch"
    /\ LaunchThrows(programFound)
    /\ spawnAttempts' = spawnAttempts + 1
    /\ tunnel' = "closed"
    /\ rc' = UncaughtExceptionStatus
    /\ outcome' = "spawnError"
    /\ pc' = "exit"
    /\ UNCHANGED <<optVars, envVars, username, password, sshClient, helpShown,
                   tlsWrites, proxyWrites, userPrompts, passPrompts, userReads,
                   passReads, usernameAtMain, passwordAtMain, echoOn, boundPort,
                   sshArgs, spawnedExe, child, childCode, programFound>>

\* The client process ends with some exit code.
childExits ==
    /\ child = "running"
    /\ child' = "terminated"
    /\ childCode' \in ChildCodes
    /\ UNCHANGED <<pc, optVars, envVars, username, password, sshClient, rc,
                   outcome, helpShown, tlsWrites, proxyWrites, userPrompts,
                   passPrompts, userReads, passReads, usernameAtMain,
                   passwordAtMain, echoOn, tunnel, boundPort, sshArgs,
                   spawnAttempts, spawnedExe, programFound>>

\* ph.wait() returns; main() returns rc and the forwarder is destroyed.
waitChild ==
    /\ pc = "wait"
    /\ child = "terminated"
    /\ rc' = ExitStatusOfWait(childCode)
    /\ tunnel' = "closed"
    /\ outcome' = "passthrough"
    /\ pc' = "exit"
    /\ UNCHANGED <<optVars, envVars, username, password, sshClient, helpShown,
                   tlsWrites, proxyWrites, userPrompts, passPrompts, userReads,
                   passReads, usernameAtMain, passwordAtMain, echoOn, boundPort,
                   sshArgs, spawnAttempts, spawnedExe, child, childCode,
                   programFound>>

Next ==
    \/ handleHelp
    \/ handleClient
    \/ handleSCP
    \/ handleLocalPort
    \/ handleRemotePort
    \/ handleUsername
    \/ handleLogin
    \/ handlePassword
    \/ mainHelp
    \/ mainConfigure
    \/ mainResolveClient
    \/ promptUsername
    \/ promptPassword
    \/ readPassword
    \/ openTunnel
    \/ openTunnelFails
    \/ buildInvocation
    \/ launch
    \/ launchFails
    \/ childExits
    \/ waitChild

Spec == Init /\ [][Next]_vars

---------------------------------------------------------------------------
(* Notions the properties are stated in. *)

LauncherErrors == {"noClient", "tunnelError", "spawnError"}

\* The run is past promptLogin().
PastPrompts ==
    \/ pc \in {"open", "build", "launch", "wait"}
    \/ pc = "exit" /\ outcome \in {"tunnelError", "spawnError", "passthrough"}

\* The argument vector has been built.
Built == sshArgs # <<>>

Last(q) == q[Len(q)]

Contains(q, x) == \E i \in 1..Len(q) : q[i] = x

\* name starts with prefix, letter case ignored.
HasPrefixCI(name, prefix) ==
    /\ Len(name) >= Len(prefix)
    /\ \A i \in 1..Len(prefix) : ToLower(name[i]) = ToLower(prefix[i])

\* The file name of a path: what follows the last "/" or "\".
BaseName(path) ==
    LET seps == {i \in 1..Len(path) : path[i] \in {"/", "\\"}}
    IN  IF seps = {} THEN path
        ELSE SubSeq(path, (CHOOSE i \in seps : \A j \in seps : j <= i) + 1,
                    Len(path))

\* The executable's name matches putty* or scp*.
ExecutableNameMatches(client) ==
    \/ HasPrefixCI(BaseName(client), S_putty)
    \/ HasPrefixCI(BaseName(client), S_scp)

\* The client string as a whole starts with scp: the clients the builder
\* treats as scp-style.
ScpStyle(client) == HasPrefixCI(client, S_scp)

\* The number a string of decimal digits denotes.
RECURSIVE DecimalValue(_)
DecimalValue(str) ==
    IF str = <<>> THEN 0
    ELSE 10 * DecimalValue(SubSeq(str, 1, Len(str) - 1))
         + ((CHOOSE d \in 1..10 : Digits[d] = Last(str)) - 1)

IsDecimal(str) ==
    /\ str # <<>>
    /\ \A i \in 1..Len(str) : \E d \in 1..10 : Digits[d] = str[i]
    /\ Len(str) > 1 => str[1] # "0"

---------------------------------------------------------------------------
(* C1: when -C/--ssh-client or --scp chose an executable and ssh.executable *)
(* is configured to a different value, the executable that is spawned is    *)
(* the one the option chose.                                                *)
C1_OptionWinsOverConfig ==
    (spawnedExe # {} /\ optClient # {} /\ cfgExecutable # {}
        /\ cfgExecutable # optClient)
    => spawnedExe = optClient

C3_UnresolvedClientStopsEarly ==
    (outcome \in {"noClient", "spawnError"} \/ (pc = "launch" /\ ~programFound))
    => /\ pc = "exit" => rc = EXIT_CONFIG
       /\ spawnAttempts = 0
       /\ userPrompts = 0 /\ passPrompts = 0
       /\ tunnel = "none"

(* C3 amended: an empty client executable gives the configuration-error    *)
(* status with no spawn attempt, no credential prompt and no tunnel, and a *)
(* run never gets past the resolution with an empty executable; a          *)
(* non-empty name is not looked up before the prompts and the tunnel.      *)
C3_EmptyClientStopsEarly ==
    /\ outcome = "noClient"
          => /\ pc = "exit"
             /\ sshClient = <<>>
             /\ rc = EXIT_CONFIG
             /\ spawnAttempts = 0 /\ child = "none"
             /\ userPrompts = 0 /\ passPrompts = 0
             /\ userReads = 0 /\ passReads = 0
             /\ tunnel = "none"
    /\ (sshClient = <<>> /\ pc \notin {"options", "resolve"} /\ outcome # "help")
          => outcome = "noClient"

C3_Witness ==
    /\ pc = "exit"
    /\ outcome = "noClient"
    /\ username = "" /\ password = ""

(* C4: a run that spawned a client ends only after the child has           *)
(* terminated, and its exit status is then exactly the child's exit code.  *)
C4_ExitStatusIsChildCode ==
    /\ pc = "exit" => child # "running"
    /\ (pc = "exit" /\ spawnedExe # {})
          => /\ child = "terminated"
             /\ rc = childCode
             /\ outcome = "passthrough"
    /\ pc = "wait" => child # "none"

C4_Witness ==
    /\ pc = "exit"
    /\ child = "terminated"
    /\ childCode = 78
    /\ rc = 78

C6_PortFlagByExecutableName ==
    Built => /\ sshArgs[1] = S_dashP <=> ExecutableNameMatches(sshClient)
             /\ sshArgs[1] # S_dashP => sshArgs[1] = S_dashp

(* C7 as stated: for an scp-style client the argument vector never ends    *)
(* with a bare localhost and never contains -l, whatever the login name    *)
(* and the trailing arguments are.                                         *)
C7_ScpNoLocalhostNoLogin ==
    (Built /\ ScpStyle(sshClient))
    => /\ Last(sshArgs) # S_localhost
       /\ ~Contains(sshArgs, S_dashl)

(* C7 amended: for an scp-style client the argument vector is -P, the port *)
(* and then the trailing arguments, whatever the login name is: the        *)
(* builder adds neither -l nor a final localhost, so the vector holds them *)
(* only where the user's own trailing arguments do.                        *)
C7_ScpVectorIsPortAndTrailing ==
    (Built /\ ScpStyle(sshClient))
    => /\ Len(sshArgs) = 2 + Len(args) - 1
       /\ sshArgs[1] = S_dashP
       /\ DecimalValue(sshArgs[2]) = boundPort
       /\ SubSeq(sshArgs, 3, Len(sshArgs)) = Tail(args)
       /\ Contains(sshArgs, S_dashl) => Contains(Tail(args), S_dashl)
       /\ Last(sshArgs) = S_localhost
             => Len(args) > 1 /\ Last(args) = S_localhost

C7_Witness ==
    /\ Built
    /\ ScpStyle(sshClient)
    /\ sshClient # S_scp
    /\ login # <<>>
    /\ Len(args) = 3
    /\ ~Contains(sshArgs, S_dashl)

(* C8: for a client that is not scp-style and a non-empty login name the   *)
(* vector holds -l and the login name right after the port value and right *)
(* before the first trailing argument; with an empty login name the        *)
(* builder adds no -l.                                                     *)
C8_LoginBeforeTrailing ==
    Built
    => /\ (~ScpStyle(sshClient) /\ login # <<>>)
             => /\ Len(sshArgs) = 5 + Len(args) - 1
                /\ IsDecimal(sshArgs[2])
                /\ sshArgs[3] = S_dashl
                /\ sshArgs[4] = login
                /\ SubSeq(sshArgs, 5, Len(sshArgs) - 1) = Tail(args)
       /\ login = <<>>
             => /\ SubSeq(sshArgs, 3, 2 + Len(args) - 1) = Tail(args)
                /\ Len(sshArgs) <= 3 + Len(args) - 1
                /\ Contains(sshArgs, S_dashl) => Contains(Tail(args), S_dashl)

C8_Witness ==
    /\ Built
    /\ ~ScpStyle(sshClient)
    /\ login = S_bob
    /\ Len(args) = 3
    /\ args[2] # S_dashl
    /\ sshArgs[3] = S_dashl
    /\ sshArgs[6] = args[3]

(* C9: the port value of the vector is the decimal form of the port the    *)
(* opened tunnel reports as bound, a port in 1..65535 also when port 0 was *)
(* requested, and it is not the remote port's number unless the bound port *)
(* has that number; for a client that is not scp-style the final argument  *)
(* is the literal localhost, not the remote URI.                           *)
C9_ClientAimedAtLocalEndpoint ==
    Built
    => /\ tunnel # "none"
       /\ boundPort \in 1..65535
       /\ localPort # 0 => boundPort = localPort
       /\ IsDecimal(sshArgs[2])
       /\ DecimalValue(sshArgs[2]) = boundPort
       /\ sshArgs[2] # <<"0">>
       /\ boundPort # remotePort => DecimalValue(sshArgs[2]) # remotePort
       /\ ~ScpStyle(sshClient)
             => Last(sshArgs) = S_localhost /\ Last(sshArgs) # args[1]
       /\ spawnedExe # {} => spawnedExe = {sshClient}

C9_Witness ==
    /\ spawnedExe # {}
    /\ localPort = 0
    /\ boundPort = 65535
    /\ sshArgs[2] = <<"6", "5", "5", "3", "5">>
    /\ remotePort = 2222
    /\ Last(sshArgs) = S_localhost

(* C10: the username prompt is issued exactly when the username is empty   *)
(* after option processing, the password prompt exactly when the password  *)
(* is empty; one line is read per prompt and never more than one per       *)
(* field; a field that was supplied is left as it was.                     *)
C10_PromptOnlyMissingFields ==
    /\ userPrompts <= 1 /\ passPrompts <= 1
    /\ userReads <= userPrompts /\ passReads <= passPrompts
    /\ pc \in {"options", "resolve", "promptUser"}
          => userPrompts = 0 /\ passPrompts = 0
    /\ PastPrompts
          => /\ userPrompts = 1 <=> usernameAtMain = ""
             /\ passPrompts = 1 <=> passwordAtMain = ""
             /\ userReads = userPrompts
             /\ passReads = passPrompts
             /\ usernameAtMain # "" => username = usernameAtMain
             /\ passwordAtMain # "" => password = passwordAtMain

C10_Witness ==
    /\ PastPrompts
    /\ usernameAtMain = "admin" /\ username = "admin"
    /\ passwordAtMain = "" /\ password = "typed"
    /\ userPrompts = 0 /\ passPrompts = 1

\* The run did nothing but show the usage: no transport setting written, no
\* prompt, no tunnel, no client.
OnlyUsageShown ==
    /\ pc = "exit"
    /\ outcome = "help"
    /\ helpShown
    /\ rc = EXIT_OK
    /\ tlsWrites = 0 /\ proxyWrites = 0
    /\ userPrompts = 0 /\ passPrompts = 0
    /\ userReads = 0 /\ passReads = 0
    /\ tunnel = "none"
    /\ spawnAttempts = 0 /\ spawnedExe = {} /\ child = "none"

(* C11: with -h/--help given, whatever else is on the command line, the    *)
(* run shows the usage and exits with status 0, and it writes no transport *)
(* setting, prompts for nothing, opens no tunnel and spawns no client.     *)
C11_HelpOnlyShowsUsage ==
    (helpRequested /\ pc # "options") => OnlyUsageShown

C11_Witness ==
    /\ helpRequested
    /\ pc = "exit"
    /\ helpShown
    /\ Len(args) = 3
    /\ optClient # {}
    /\ username = "" /\ password = ""
    /\ tlsEnabled /\ cfgProxyEnable

(* C12: whenever a tunnel is being opened or is open, the relay username   *)
(* and the relay password are both non-empty; a blank line at a prompt     *)
(* never leads to an open with an empty username or password.              *)
C12_CredentialsNonEmptyAtOpen ==
    (pc = "open" \/ tunnel = "open") => username # "" /\ password # ""

(* C13: terminal echo is off only while the password line is being read;   *)
(* it is on again after the read whatever was read (a blank line or end of *)
(* input included), so it is on during the tunnel open, while the client   *)
(* runs and at exit; it is never turned off when the password was          *)
(* supplied.                                                               *)
C13_EchoOffOnlyDuringPasswordRead ==
    /\ ~echoOn => /\ pc = "readPass"
                  /\ passwordAtMain = ""
                  /\ passPrompts = 1 /\ passReads = 0
    /\ pc = "readPass" => ~echoOn
    /\ (PastPrompts \/ pc = "exit") => echoOn
    /\ child # "none" => echoOn

C13_Witness ==
    /\ pc = "open"
    /\ passReads = 1
    /\ password = ""
    /\ echoOn

\* The run has applied its transport settings (it is past lines 331-364).
PastConfigure == pc # "options" /\ outcome # "help"

(* C14: in a run that gets to the tunnel open, the TLS trust policy (in a  *)
(* build with TLS) and the proxy configuration (with http.proxy.enable     *)
(* true) have each been written exactly once before the open begins, and   *)
(* the counts never change from then on; without http.proxy.enable the     *)
(* proxy configuration is never written; no run writes either twice.       *)
C14_TransportSettingsWrittenOnce ==
    /\ tlsWrites <= 1 /\ proxyWrites <= 1
    /\ ~cfgProxyEnable => proxyWrites = 0
    /\ ~tlsEnabled => tlsWrites = 0
    /\ ~PastConfigure => tlsWrites = 0 /\ proxyWrites = 0
    /\ (PastConfigure \/ pc = "open" \/ tunnel # "none")
          => /\ tlsWrites = (IF tlsEnabled THEN 1 ELSE 0)
             /\ proxyWrites = (IF cfgProxyEnable THEN 1 ELSE 0)

C14_Witness ==
    /\ pc = "wait"
    /\ tunnel = "open"
    /\ tlsEnabled /\ tlsWrites = 1
    /\ cfgProxyEnable /\ proxyWrites = 1

(* C15: the tunnel is open from before the client is spawned until the     *)
(* client has terminated and the wait has returned, never closed while the *)
(* child runs, and it is closed on every path by the end of the run, also  *)
(* when the spawn fails after the tunnel was opened.                       *)
C15_TunnelBracketsClient ==
    /\ pc \in {"build", "launch", "wait"} => tunnel = "open"
    /\ child = "running" => tunnel = "open"
    /\ spawnAttempts > 0 => tunnel # "none"
    /\ pc = "exit" => tunnel # "open"
    /\ (pc = "exit" /\ outcome \in {"spawnError", "passthrough"})
          => tunnel = "closed"
    /\ tunnel = "closed" => pc = "exit" /\ child # "running"

C15_Witness ==
    /\ pc = "exit"
    /\ outcome = "spawnError"
    /\ spawnAttempts = 1
    /\ tunnel = "closed"

\* The step of the program-level state machine a position belongs to:
\* 0 Init, 1 ResolveConfig, 2 OpenTunnel, 3 BuildInvocation, 4 SpawnClient,
\* 5 WaitChild, 6 Exit.
StepOf(p) ==
    CASE p = "options" -> 0
      [] p \in {"resolve", "promptUser", "promptPass", "readPass"} -> 1
      [] p = "open" -> 2
      [] p = "build" -> 3
      [] p = "launch" -> 4
      [] p = "wait" -> 5
      [] p = "exit" -> 6

\* The positions in the order the code reaches them.
RankOf(p) ==
    CASE p = "options" -> 0
      [] p = "resolve" -> 1
      [] p = "promptUser" -> 2
      [] p = "promptPass" -> 3
      [] p = "readPass" -> 4
      [] p = "open" -> 5
      [] p = "build" -> 6
      [] p = "launch" -> 7
      [] p = "wait" -> 8
      [] p = "exit" -> 9

(* C16 as stated: every run that ends without having waited on a spawned   *)
(* client ends with an error status; status 0 or a child's status comes    *)
(* only from a run that spawned a client and waited for it.                *)
C16_NoWaitMeansErrorStatus ==
    /\ (pc = "exit" /\ outcome # "passthrough") => rc # EXIT_OK
    /\ (pc = "exit" /\ outcome = "passthrough")
          => child = "terminated" /\ spawnAttempts = 1

\* What holds of every state for C16 as amended.
C16_StatusByPath ==
    /\ (pc = "exit" /\ outcome = "passthrough")
          => child = "terminated" /\ spawnAttempts = 1 /\ rc = childCode
    /\ (pc = "exit" /\ outcome = "help")
          => /\ helpRequested \/ args = <<>>
             /\ rc = EXIT_OK
             /\ spawnAttempts = 0
    /\ (pc = "exit" /\ outcome \notin {"help", "passthrough"})
          => outcome \in LauncherErrors /\ rc # EXIT_OK
    /\ pc = "exit" <=> outcome # "running"
    /\ spawnAttempts <= 1

\* What holds of every step for C16 as amended.
C16_StepsInOrder ==
    pc' # pc
    => /\ RankOf(pc') > RankOf(pc)
       /\ StepOf(pc') \in {StepOf(pc), StepOf(pc) + 1, StepOf("exit")}

(* C16 amended: status 0 or a child's status is produced only by a run     *)
(* that spawned a client and waited for it, or by a usage run (help        *)
(* requested or no positional argument), which ends with status 0 without  *)
(* any further step; every other run that ends without having waited ends  *)
(* with a non-zero status.  The steps of a run occur in the order          *)
(* ResolveConfig, OpenTunnel, BuildInvocation, SpawnClient, WaitChild,     *)
(* Exit, none repeated, a run leaving for Exit from any of them.           *)
C16_PassthroughOnlyAfterWait ==
    [](C16_StatusByPath) /\ [][C16_StepsInOrder]_vars

C16_Witness ==
    /\ pc = "exit"
    /\ outcome = "passthrough"
    /\ child = "terminated"
    /\ rc = EXIT_OK
    /\ tunnel = "closed"

(* C17: for every client and every list of positional arguments, the       *)
(* arguments after the remote URI appear in the vector verbatim, as one    *)
(* block in their order, after the port (and -l <login>, if added) and     *)
(* before localhost (if added), none dropped or duplicated; the remote URI *)
(* is not copied.                                                          *)
C17_TrailingArgsVerbatim ==
    Built
    => /\ \E k \in {2, 4} :
             /\ k = 4 => /\ login # <<>>
                         /\ Len(sshArgs) >= 4
                         /\ sshArgs[3] = S_dashl
                         /\ sshArgs[4] = login
             /\ k = 2 => (login = <<>> \/ ScpStyle(sshClient))
             /\ Len(sshArgs) >= k + Len(args) - 1
             /\ SubSeq(sshArgs, k + 1, k + Len(args) - 1) = Tail(args)
             /\ SubSeq(sshArgs, k + Len(args), Len(sshArgs))
                   \in {<<>>, <<S_localhost>>}
       /\ ~Contains(sshArgs, args[1])

C17_Witness ==
    /\ Built
    /\ Len(args) = 3
    /\ args[2] # args[3]
    /\ login # <<>>
    /\ sshArgs[5] = args[2]
    /\ sshArgs[6] = args[3]
    /\ Len(sshArgs) = 7

\* The number of elements the builder adds besides the port flag, the port
\* and the trailing arguments.
Added == Len(sshArgs) - 2 - (Len(args) - 1)

(* C18: the three classification decisions agree for every client string:  *)
(* a vector without the appended localhost has no -l <login> added and has *)
(* the port flag -P; a vector with the port flag -p has localhost appended *)
(* and, for a non-empty login name, -l <login> added.  No client gets -p   *)
(* without localhost.                                                      *)
C18_ClassificationsAgree ==
    Built
    => /\ Added \in {0, 1, 3}
       /\ Added = 0 => sshArgs[1] = S_dashP
       /\ Added # 0 => Last(sshArgs) = S_localhost
       /\ Added = 3 => login # <<>> /\ sshArgs[3] = S_dashl /\ sshArgs[4] = login
       /\ sshArgs[1] = S_dashp
             => /\ Added = (IF login # <<>> THEN 3 ELSE 1)
                /\ Last(sshArgs) = S_localhost
       /\ sshArgs[1] \in {S_dashP, S_dashp}

C18_Witness ==
    /\ Built
    /\ Added = 0
    /\ sshArgs[1] = S_dashP
    /\ login # <<>>
    /\ sshClient = S_ScP

(* C19: with no positional argument and no help option the run behaves as  *)
(* a help request: it shows the usage and ends with status 0, and it       *)
(* writes no transport setting, prompts for nothing, opens no tunnel and   *)
(* spawns no client.                                                       *)
C19_MissingURIShowsUsage ==
    (args = <<>> /\ ~helpRequested /\ pc # "options") => OnlyUsageShown

C19_Witness ==
    /\ args = <<>>
    /\ ~helpRequested
    /\ pc = "exit"
    /\ helpShown
    /\ rc = EXIT_OK
    /\ username = "" /\ password = ""
    /\ tlsEnabled /\ cfgProxyEnable

====
